---- MODULE Spec2Model ----
(***************************************************************************)
(* A model of cumbiaGEN's training pipeline (Code/train.py): the masked    *)
(* loss, the teacher-forcing shift of one training step, the epoch/batch   *)
(* loop with its per-epoch checkpoints, and the melody generation that     *)
(* train.py and generate.py drive.                                         *)
(*                                                                         *)
(* Numbers.  A float is modelled as an exact non-negative rational <<n,d>> *)
(* in lowest terms (d >= 1), or one of the two IEEE specials NaN == <<0,0>>*)
(* and Inf == <<1,0>>.  Rounding is not modelled; 0/0, x/0, Inf*0 and the  *)
(* propagation of NaN are.                                                 *)
(*                                                                         *)
(* Tensors.  A rank-2 tensor is a sequence of rows, each row a sequence.   *)
(***************************************************************************)
EXTENDS Integers, Sequences, FiniteSets

\* ------------------------------------------------------------------ bounds
BatchSize == 1      \* rows of a batch
SeqLen == 3         \* widest batch (tokens per row)
NumEpochs == 2      \* the epochs argument of train
NumBatches == 2     \* batches the dataset yields per epoch
MaxLength == 4      \* the generator's max_length

\* Token ids: 0 is padding, the others are vocabulary entries.
Tokens == {0, 1, 2}
Vocab == Tokens \ {0}
\* Per-position cross-entropy values a finite network may produce.
PosLosses == {0, 1}

\* ------------------------------------------------------------------ floats
NaN == <<0, 0>>
Inf == <<1, 0>>
Zero == <<0, 1>>

RECURSIVE GCD(_, _)
GCD(a, b) == IF b = 0 THEN a ELSE GCD(b, a % b)

Norm(n, d) ==
    IF d = 0 THEN (IF n = 0 THEN NaN ELSE Inf)
    ELSE LET g == GCD(n, d) IN <<n \div g, d \div g>>

Float(k) == <<k, 1>>

IsFinite(x) == x[2] # 0

\* x + y
FAdd(x, y) ==
    IF x = NaN \/ y = NaN THEN NaN
    ELSE IF x = Inf \/ y = Inf THEN Inf
    ELSE Norm(x[1] * y[2] + y[1] * x[2], x[2] * y[2])

\* x * y
FMul(x, y) ==
    IF x = NaN \/ y = NaN THEN NaN
    ELSE IF x = Inf \/ y = Inf
         THEN (IF x = Zero \/ y = Zero THEN NaN ELSE Inf)
    ELSE Norm(x[1] * y[1], x[2] * y[2])

\* x / y
FDiv(x, y) ==
    IF x = NaN \/ y = NaN THEN NaN
    ELSE IF y = Inf THEN (IF x = Inf THEN NaN ELSE Zero)
    ELSE IF x = Inf THEN Inf
    ELSE Norm(x[1] * y[2], x[2] * y[1])

\* ----------------------------------------------------------------- tensors
Rows(t) == 1..Len(t)
Cols(t) == IF Len(t) = 0 THEN {} ELSE 1..Len(t[1])
Positions(t) == Rows(t) \X Cols(t)

\* tf.reduce_sum over a rank-2 tensor of floats, row by row.
RECURSIVE SumRow(_, _)
SumRow(row, k) == IF k = 0 THEN Zero ELSE FAdd(SumRow(row, k - 1), row[k])

RECURSIVE SumRows(_, _)
SumRows(t, r) ==
    IF r = 0 THEN Zero ELSE FAdd(SumRows(t, r - 1), SumRow(t[r], Len(t[r])))

reduce_sum(t) == SumRows(t, Len(t))

\* target[:, :-1]
DropLast(t) == [r \in Rows(t) |-> SubSeq(t[r], 1, Len(t[r]) - 1)]
\* target[:, 1:]
DropFirst(t) == [r \in Rows(t) |-> SubSeq(t[r], 2, Len(t[r]))]

left_pad_sequence_once(sequence) ==
    [r \in Rows(sequence) |-> <<0>> \o sequence[r]]

\* tf.pad(sequence, [[0, 0], [0, 1]], "CONSTANT")
right_pad_sequence_once(sequence) ==
    [r \in Rows(sequence) |-> Append(sequence[r], 0)]

\* ------------------------------------------------------------------- model
\* The transformer's trainable variables, abstracted to what the loop can
\* observe of them: how many optimizer updates they have received, and
\* whether they are still finite numbers.
InitialParams == [updates |-> 0, finite |-> TRUE]

\* transformer(input, target_input, True, None, None, None) followed by the
\* per-position sparse categorical cross-entropy against target_real.  The
\* logits are abstracted to the cross-entropy ce[r][c] they give at each
\* position; a network whose weights are NaN yields NaN everywhere.
Predictions(params, target_input, ce) ==
    [r \in Rows(target_input) |->
        [c \in 1..Len(target_input[r]) |->
            IF params.finite THEN Float(ce[r][c]) ELSE NaN]]

\* mask = cast(logical_not(equal(real, 0)), loss_.dtype)
padding_mask(real) ==
    [r \in Rows(real) |->
        [c \in 1..Len(real[r]) |-> IF real[r][c] = 0 THEN Float(0) ELSE Float(1)]]

\* loss_ *= mask
apply_mask(loss_, mask) ==
    [r \in Rows(loss_) |->
        [c \in 1..Len(loss_[r]) |-> FMul(loss_[r][c], mask[r][c])]]

ElementCount(t) == Float(Cardinality(Positions(t)))

calculate_loss_mean_all(real, pred) ==
    LET mask == padding_mask(real)
        masked == apply_mask(pred, mask)
        total == reduce_sum(masked)
    IN  [loss_ |-> masked,
         total_loss |-> total,
         number_of_non_padded_elements |-> ElementCount(real),
         average_loss |-> FDiv(total, ElementCount(real))]

\* _calculate_loss(real, pred): pred is the per-position cross-entropy.
calculate_loss(real, pred) ==
    LET mask == padding_mask(real)
        masked == apply_mask(pred, mask)
        total == reduce_sum(masked)
        count == reduce_sum(mask)
    IN  [loss_ |-> masked,
         total_loss |-> total,
         number_of_non_padded_elements |-> count,
         average_loss |-> FDiv(total, count)]

apply_gradients_skipped(params, loss) == params

\* gradients = tape.gradient(loss, ...); optimizer.apply_gradients(...):
\* one Adam update; the gradient of a non-finite loss is non-finite, and so
\* are the weights after it.
apply_gradients(params, loss) ==
    [updates |-> params.updates + 1,
     finite |-> params.finite /\ IsFinite(loss)]

train_step_shift_two(target, ce, params) ==
    LET target_input == right_pad_sequence_once(DropLast(target))
        target_real ==
            [r \in Rows(target) |->
                [c \in 1..Len(target[r]) |->
                    IF c + 2 <= Len(target[r]) THEN target[r][c + 2] ELSE 0]]
        predictions == Predictions(params, target_input, ce)
        l == calculate_loss(target_real, predictions)
    IN  [target_input |-> target_input,
         target_real |-> target_real,
         predictions |-> predictions,
         number_of_non_padded_elements |-> l.number_of_non_padded_elements,
         loss |-> l.average_loss,
         params |-> apply_gradients(params, l.average_loss)]

\* _train_step(input, target, transformer).  The encoder input does not
\* enter what is modelled of the forward pass and is left out.
train_step(target, ce, params) ==
    LET target_input == right_pad_sequence_once(DropLast(target))
        target_real == right_pad_sequence_once(DropFirst(target))
        predictions == Predictions(params, target_input, ce)
        l == calculate_loss(target_real, predictions)
    IN  [target_input |-> target_input,
         target_real |-> target_real,
         predictions |-> predictions,
         number_of_non_padded_elements |-> l.number_of_non_padded_elements,
         loss |-> l.average_loss,
         params |-> apply_gradients(params, l.average_loss)]

\* ------------------------------------------------------------------ inputs
\* Rows of width L: at least one token, padding only trailing.
TargetRows(L) ==
    {row \in [1..L -> Tokens] :
        /\ row[1] # 0
        /\ \A i \in 1..(L - 1) : row[i] = 0 => row[i + 1] = 0}

\* Target batches of BatchSize rows and a batch-uniform width.
Targets == UNION {[1..BatchSize -> TargetRows(L)] : L \in 1..SeqLen}

\* The cross-entropies a finite network may give on a batch of this shape.
CrossEntropies(target) == [Rows(target) -> [Cols(target) -> PosLosses]]

\* ------------------------------------------------------------------- state
VARIABLES
    pc,               \* where the program is
    params,           \* the transformer's trainable variables
    target, ce,       \* _train_step's inputs (the single-step specification)
    step,             \* _train_step's locals at its return
    epoch, batch,     \* train's loop counters
    total_loss,       \* train's accumulator
    losses,           \* train's list of per-epoch totals
    log,              \* the "Epoch e Batch b Loss x" lines printed
    saved,            \* every save_weights that completed: directory, weights
    error,            \* the exception that ended the run, if any
    eos_ids,          \* the vocabulary's end-of-sequence ids (none or one)
    start_sequences,  \* the seeds generation is run on
    melody_i,         \* how many of them have been generated
    encoder_input,    \* generate: the encoded seed
    decoder,          \* generate: the decoder's running sequence
    new_melody        \* generate: the melody last returned

training == <<epoch, batch, total_loss, losses, log, saved, error>>
single == <<target, ce, step>>
generation == <<eos_ids, start_sequences, melody_i, encoder_input, decoder,
                new_melody>>
vars == <<pc, params, single, training, generation>>

NoTensor == <<>>
NoStep == [target_input |-> NoTensor, target_real |-> NoTensor,
           predictions |-> NoTensor,
           number_of_non_padded_elements |-> Zero, loss |-> Zero,
           params |-> InitialParams]

\* train's state before its first statement.
TrainingIdle ==
    /\ epoch = 0 /\ batch = 0
    /\ total_loss = Zero
    /\ losses = <<>>
    /\ log = <<>>
    /\ saved = <<>>
    /\ error = "none"

\* The generator's state before its first call.
GenerationIdle ==
    /\ eos_ids = {}
    /\ start_sequences = <<>>
    /\ melody_i = 0
    /\ encoder_input = <<>>
    /\ decoder = <<>>
    /\ new_melody = <<>>

\* --------------------------------------------------------------- generator
\* The vocabulary's events and their ids (0 is padding, never an event).
Events == {"C4-1.0", "D4-1.0"}
TokenOf == [e \in Events |-> IF e = "C4-1.0" THEN 1 ELSE 2]
EventOf(id) == CHOOSE e \in Events : TokenOf[e] = id

\* tokenizer: event strings to ids and back; padding decodes to nothing.
encode(events) == [i \in 1..Len(events) |-> TokenOf[events[i]]]
decode(ids) ==
    LET kept == SelectSeq(ids, LAMBDA id : id # 0)
    IN  [i \in 1..Len(kept) |-> EventOf(kept[i])]

\* The vocabulary defines no end-of-sequence id, or id 2 is one.
EosChoices == {{}, {2}}

\* The seeds train.py generates from, cut down to one of this vocabulary.
StartSequences == << <<"C4-1.0", "D4-1.0">> >>

TerminalOneLate(dec, enc, eos) ==
    \/ Len(dec) >= MaxLength + 1
    \/ Len(dec) > Len(enc) /\ dec[Len(dec)] \in eos

\* generate's stop condition: max_length reached, or the token just sampled
\* is an end-of-sequence id.
Terminal(dec, enc, eos) ==
    \/ Len(dec) >= MaxLength
    \/ Len(dec) > Len(enc) /\ dec[Len(dec)] \in eos

\* ------------------------------------------- one call of _train_step, alone
\* The weights a call may meet: fresh ones, or ones an earlier update from a
\* NaN loss has already turned to NaN.
StepParams == {InitialParams, [updates |-> 1, finite |-> FALSE]}

StepInit ==
    /\ pc = "call"
    /\ params \in StepParams
    /\ target \in Targets
    /\ ce \in CrossEntropies(target)
    /\ step = NoStep
    /\ TrainingIdle
    /\ GenerationIdle

CallTrainStep ==
    /\ pc = "call"
    /\ step' = train_step(target, ce, params)
    /\ params' = step'.params
    /\ pc' = "return"
    /\ UNCHANGED <<target, ce, training, generation>>

StepNext == CallTrainStep

StepSpec == StepInit /\ [][StepNext]_vars

\* ---------------------------------------------- properties of a single step
\* The positions of a token tensor that hold a token, not padding.
NonPadded(real) == {p \in Positions(real) : real[p[1]][p[2]] # 0}

\* The sum of a float tensor over a set of its positions.
RECURSIVE SumOver(_, _)
SumOver(t, S) ==
    IF S = {} THEN Zero
    ELSE LET p == CHOOSE q \in S : TRUE
         IN  FAdd(t[p[1]][p[2]], SumOver(t, S \ {p}))

AllFinite(t) == \A p \in Positions(t) : IsFinite(t[p[1]][p[2]])

\* C1: the loss _calculate_loss returns is the sum of the per-position
\* losses over the positions whose real token is not 0, divided by the
\* number of those positions; padding positions enter neither the sum nor
\* the divisor, and the divisor is the element count only when the real
\* tensor holds no padding.
C1_MaskedAverage ==
    pc = "return" =>
        LET real == step.target_real
            kept == NonPadded(real)
        IN  /\ step.number_of_non_padded_elements = Float(Cardinality(kept))
            /\ kept # {} =>
                   step.loss = FDiv(SumOver(step.predictions, kept),
                                    Float(Cardinality(kept)))
            /\ step.number_of_non_padded_elements = ElementCount(real)
                   => kept = Positions(real)

\* C1's case: a call on a batch that holds tokens and padding, where the
\* network's loss at a padding position is not zero and the loss returned
\* is a positive number.
C1_Witness ==
    /\ pc = "return"
    /\ NonPadded(step.target_real) # {}
    /\ \E p \in Positions(step.target_real) \ NonPadded(step.target_real) :
           step.predictions[p[1]][p[2]] = Float(1)
    /\ IsFinite(step.loss)
    /\ step.loss # Zero

\* C2 (as claimed): when the real tensor given to the loss computation is all
\* zeros, the computation raises; it does not return to its caller.
C2_AllPaddingRaises ==
    ~(pc = "return" /\ NonPadded(step.target_real) = {})

TokensAfterFirst(t) == {p \in NonPadded(t) : p[2] >= 2}

C4_ShiftedByOne ==
    pc = "return" =>
        \A r \in Rows(target) :
            LET L == Len(target[r])
            IN  /\ Len(step.target_input) = Len(target)
                /\ Len(step.target_real) = Len(target)
                /\ Len(step.target_input[r]) = L
                /\ Len(step.target_real[r]) = L
                /\ step.target_input[r][L] = 0
                /\ step.target_real[r][L] = 0
                /\ \A i \in 1..(L - 1) :
                       /\ step.target_input[r][i] = target[r][i]
                       /\ step.target_real[r][i] = target[r][i + 1]

\* C4's case: a call on a full-width row of tokens that are not all alike.
C4_Witness ==
    /\ pc = "return"
    /\ \E r \in Rows(target) :
           /\ Len(target[r]) = SeqLen
           /\ target[r][1] # target[r][2]
           /\ target[r][2] # 0

\* ------------------------------------------------------ train and __main__
\* The batches the dataset may yield: two rows padded to two columns, with
\* a two-token row, and with a single token in every row.
DatasetBatches ==
    { <<<<1, 2>>, <<2, 0>>>>,
      <<<<1, 0>>, <<2, 0>>>> }

\* What a save_weights call may meet.
SaveErrors == {"write_error", "storage_unavailable"}

CheckpointDirFixed(e) == <<"epoch_", 0>>

\* f"epoch_{epoch}/" under models_path
CheckpointDir(e) == <<"epoch_", e>>

\* "/content/weigths/"
FinalDir == <<"weigths">>

\* transformer.save_weights(dir, save_format="tf"), when it succeeds
save_weights(files, dir, weights) ==
    Append(files, [dir |-> dir, weights |-> weights])

epoch_start_carried(previous) == previous

\* total_loss = 0, the first statement of an epoch
epoch_start(previous) == Zero

Init ==
    /\ pc = "batch"
    /\ params = InitialParams
    /\ target = NoTensor /\ ce = NoTensor /\ step = NoStep
    /\ epoch = 0 /\ batch = 0
    /\ total_loss = epoch_start(Zero)
    /\ losses = <<>>
    /\ log = <<>>
    /\ saved = <<>>
    /\ error = "none"
    /\ eos_ids \in EosChoices
    /\ start_sequences = StartSequences
    /\ melody_i = 0
    /\ encoder_input = <<>>
    /\ decoder = <<>>
    /\ new_melody = <<>>

\* One pass of the batch loop: _train_step, the accumulation, the print.
TrainBatch ==
    /\ pc = "batch"
    /\ \E t \in DatasetBatches : \E c \in CrossEntropies(t) :
          LET r == train_step(t, c, params)
          IN  /\ params' = r.params
              /\ total_loss' = FAdd(total_loss, r.loss)
              /\ log' = Append(log, <<epoch + 1, batch + 1, r.loss>>)
    /\ batch' = batch + 1
    /\ pc' = IF batch + 1 = NumBatches THEN "end_epoch" ELSE "batch"
    /\ UNCHANGED <<epoch, losses, saved, error, single, generation>>

\* The end of an epoch when the checkpoint is written: losses.append,
\* save_weights, and the loop's next iteration or its exit.
EndEpoch ==
    /\ pc = "end_epoch"
    /\ losses' = Append(losses, total_loss)
    /\ saved' = save_weights(saved, CheckpointDir(epoch), params)
    /\ epoch' = epoch + 1
    /\ batch' = 0
    /\ IF epoch + 1 < NumEpochs
       THEN pc' = "batch" /\ total_loss' = epoch_start(total_loss)
       ELSE pc' = "plot" /\ total_loss' = total_loss
    /\ UNCHANGED <<params, log, error, single, generation>>

\* The end of an epoch when save_weights raises: nothing catches it.
EndEpochSaveFails ==
    /\ pc = "end_epoch"
    /\ losses' = Append(losses, total_loss)
    /\ \E e \in SaveErrors : error' = e
    /\ pc' = "failed"
    /\ UNCHANGED <<params, epoch, batch, total_loss, log, saved, single,
                   generation>>

\* plt.plot(losses) ... plt.savefig: reads losses, then train returns.
PlotLosses ==
    /\ pc = "plot"
    /\ pc' = "final_save"
    /\ UNCHANGED <<params, training, single, generation>>

\* transformer_model.save_weights("/content/weigths/", ...) after train.
FinalSave ==
    /\ pc = "final_save"
    /\ \/ /\ saved' = save_weights(saved, FinalDir, params)
          /\ pc' = "generate"
          /\ error' = error
       \/ /\ \E e \in SaveErrors : error' = e
          /\ pc' = "failed"
          /\ saved' = saved
    /\ UNCHANGED <<params, epoch, batch, total_loss, losses, log, single,
                   generation>>

\* for i, start_sequence in enumerate(start_sequences): generate(...)
GenerateStart ==
    /\ pc = "generate"
    /\ melody_i < Len(start_sequences)
    /\ encoder_input' = encode(start_sequences[melody_i + 1])
    /\ decoder' = encoder_input'
    /\ pc' = "sample"
    /\ UNCHANGED <<params, training, single, eos_ids, start_sequences,
                   melody_i, new_melody>>

\* One step of generate: a token is sampled from the softmax of the last
\* position's logits (every id has a positive probability) and appended.
SampleToken ==
    /\ pc = "sample"
    /\ ~Terminal(decoder, encoder_input, eos_ids)
    /\ \E tok \in Tokens : decoder' = Append(decoder, tok)
    /\ UNCHANGED <<pc, params, training, single, eos_ids, start_sequences,
                   melody_i, encoder_input, new_melody>>

\* generate returns the decoded sequence (its locals are gone); the caller
\* writes it to a file.
FinishMelody ==
    /\ pc = "sample"
    /\ Terminal(decoder, encoder_input, eos_ids)
    /\ new_melody' = decode(decoder)
    /\ encoder_input' = <<>>
    /\ decoder' = <<>>
    /\ melody_i' = melody_i + 1
    /\ pc' = "generate"
    /\ UNCHANGED <<params, training, single, eos_ids, start_sequences>>

\* The loop over the seeds is exhausted: the program ends.
Finish ==
    /\ pc = "generate"
    /\ melody_i = Len(start_sequences)
    /\ pc' = "done"
    /\ UNCHANGED <<params, training, single, generation>>

Next ==
    \/ TrainBatch
    \/ EndEpoch
    \/ EndEpochSaveFails
    \/ PlotLosses
    \/ FinalSave
    \/ GenerateStart
    \/ SampleToken
    \/ FinishMelody
    \/ Finish

Spec == Init /\ [][Next]_vars

\* ------------------------------------------------------- generation, alone
\* Every seed of known events that fits in max_length, on trained weights.
Seeds == UNION {[1..n -> Events] : n \in 1..MaxLength}

GenInit ==
    /\ pc = "generate"
    /\ params = [updates |-> NumEpochs * NumBatches, finite |-> TRUE]
    /\ target = NoTensor /\ ce = NoTensor /\ step = NoStep
    /\ TrainingIdle
    /\ eos_ids \in EosChoices
    /\ \E seed \in Seeds : start_sequences = <<seed>>
    /\ melody_i = 0
    /\ encoder_input = <<>>
    /\ decoder = <<>>
    /\ new_melody = <<>>

GenNext ==
    \/ GenerateStart
    \/ SampleToken
    \/ FinishMelody
    \/ Finish

\* The generate loop is a sequential loop of one thread: it takes its next
\* step whenever it has one.
GenSpec == GenInit /\ [][GenNext]_vars /\ WF_vars(GenNext)

\* ------------------------------------------------- properties of the run
\* The checkpoints of the epoch loop, in the order they were written.
EpochCheckpoints == SelectSeq(saved, LAMBDA f : f.dir[1] = "epoch_")

\* The states after train's epoch loop has run to its end.
AfterLoop == {"plot", "final_save", "generate", "sample", "done"}

\* C5: one checkpoint per epoch, written at the end of that epoch (after all
\* of its training steps and before any of the next epoch's), each into its
\* own directory epoch_<N>; after the loop there is one for every epoch.
C5_OneCheckpointPerEpoch ==
    LET ck == EpochCheckpoints
    IN  /\ Len(ck) = epoch
        /\ \A i \in 1..Len(ck) :
               /\ ck[i].dir = <<"epoch_", i - 1>>
               /\ ck[i].weights.updates = i * NumBatches
        /\ \A i, j \in 1..Len(ck) : i # j => ck[i].dir # ck[j].dir
        /\ pc \in AfterLoop => Len(ck) = NumEpochs

\* C5's case: the run is over and every epoch's checkpoint and the final
\* weights have been written.
C5_Witness ==
    /\ pc = "done"
    /\ Len(EpochCheckpoints) = NumEpochs
    /\ Len(saved) = NumEpochs + 1

\* C6 (as claimed): a checkpoint write that fails, with the storage still
\* there, does not end the run.
C6_WriteFailureNotFatal ==
    ~(pc = "failed" /\ error = "write_error")

\* C7 (as claimed): no checkpoint that was written holds weights that were
\* updated from a non-finite loss.
C7_NoCheckpointOfNonFiniteWeights ==
    \A i \in 1..Len(saved) : saved[i].weights.finite

\* C9: the weights change only in a training step, by one optimizer update
\* per batch and in batch order; when train is over, NumEpochs * NumBatches
\* updates have been applied, and saving, plotting and generating leave the
\* weights alone.
C9_UpdatedOncePerBatch ==
    /\ [][params' # params =>
            /\ pc = "batch"
            /\ params'.updates = params.updates + 1
            /\ Len(log') = Len(log) + 1]_vars
    /\ [](/\ params.updates = Len(log)
          /\ \A k \in 1..Len(log) :
                 /\ log[k][1] = ((k - 1) \div NumBatches) + 1
                 /\ log[k][2] = ((k - 1) % NumBatches) + 1
          /\ pc \in AfterLoop => params.updates = NumEpochs * NumBatches)

\* C9's case: the whole program has run, a melody was generated, and the
\* weights have had every batch's update.
C9_Witness ==
    /\ pc = "done"
    /\ new_melody # <<>>
    /\ Len(saved) = NumEpochs + 1
    /\ params.updates = NumEpochs * NumBatches

\* The sum of the batch losses printed for epoch e, and their number.
RECURSIVE EpochLogSum(_, _)
EpochLogSum(e, k) ==
    IF k = 0 THEN Zero
    ELSE IF log[k][1] = e THEN FAdd(EpochLogSum(e, k - 1), log[k][3])
    ELSE EpochLogSum(e, k - 1)

EpochLogLines(e) == {k \in 1..Len(log) : log[k][1] = e}

\* C10: losses holds one entry per finished epoch, in epoch order, and entry
\* e is the sum of the batch losses of epoch e alone; after the loop there
\* are NumEpochs entries.
C10_LossesPerEpoch ==
    /\ Len(losses) \in {epoch, epoch + 1}
    /\ Len(losses) = epoch + 1 => pc \in {"failed"}
    /\ pc \in AfterLoop => Len(losses) = NumEpochs
    /\ \A e \in 1..Len(losses) :
           /\ Cardinality(EpochLogLines(e)) = NumBatches
           /\ losses[e] = EpochLogSum(e, Len(log))

\* C10's case: the loop is over, the first epoch's total is a positive number
\* and the last epoch's total is zero (nothing was carried over).
C10_Witness ==
    /\ pc = "plot"
    /\ Len(losses) = NumEpochs
    /\ IsFinite(losses[1]) /\ losses[1] # Zero
    /\ losses[NumEpochs] = Zero

\* -------------------------------------------- properties of the generator
\* C8: generation terminates.  The decoder sequence starts as the encoder
\* input, which stays fixed, grows by one sampled token per step and never
\* exceeds max_length; the loop stops at max_length or at the first sampled
\* end-of-sequence id, and the melody returned has at most max_length events.
C8_GenerationTerminates ==
    /\ <>(pc = "done")
    /\ [](pc = "sample" =>
            /\ Len(decoder) <= MaxLength
            /\ SubSeq(decoder, 1, Len(encoder_input)) = encoder_input
            /\ \A k \in (Len(encoder_input) + 1)..(Len(decoder) - 1) :
                   decoder[k] \notin eos_ids)
    /\ [](Len(new_melody) <= MaxLength)
    /\ [][pc = "sample" /\ pc' = "sample" =>
            /\ Len(decoder') = Len(decoder) + 1
            /\ encoder_input' = encoder_input]_vars
    /\ [][pc = "sample" /\ pc' = "generate" =>
            \/ Len(decoder) = MaxLength
            \/ /\ Len(decoder) > Len(encoder_input)
               /\ decoder[Len(decoder)] \in eos_ids]_vars

\* C8's case: a generation that ended early on a sampled end-of-sequence id,
\* after sampling at least two tokens.
C8_Witness ==
    /\ pc = "done"
    /\ eos_ids # {}
    /\ Len(new_melody) < MaxLength
    /\ Len(new_melody) >= Len(start_sequences[1]) + 2

====
